---- MODULE Spec2Model ----
(***************************************************************************)
(* The image-analysis / gene-validation pipeline of the dossier platform   *)
(* and its hybrid (Redis + DB) progress tracker.                           *)
(*                                                                         *)
(* The pipeline is the flow chart of src/unnamed/part_001: every node of   *)
(* the chart is a value of pc and every edge is (part of) an action named  *)
(* after the node it leaves.  The progress tracker follows                 *)
(* "Progression_tracker_design (1).md".  What neither file states (the     *)
(* exclusive gate around the vision model, record dispositions, the       *)
(* failure handling of the two store writes, the handles of the Model      *)
(* Lifecycle Manager) follows spec.md.                                     *)
(***************************************************************************)
EXTENDS Integers, Sequences, FiniteSets, TLC

\* ------------------------------------------------------------------ bounds
\* Records (images) fetched for one pipeline run.
NumRecords == 3
\* Records of the first run when two runs are submitted concurrently.
ConcurrentRecords == 1
\* The chart's recovery loop (RecoveryDecision -->|YES| Stage2) has no
\* counter; the model stops offering "GPU memory" as a stage-2 outcome once
\* a record has run stage 2 this many times.
MaxStage2Runs == 3
\* Handles the Model Lifecycle Manager can allocate before its GPU stays
\* exhausted.
MaxHandles == 3

\* Request ids the target search hands out.
MaxRequestId == 8

\* Requests of one kind the login page has in flight at a time.
MaxPendingCalls == 2

\* Rows of the literature review table.
NumRows == 11

\* Two pipeline runs submitted concurrently, sharing the one GPU model.
Jobs == {"jobA", "jobB"}
NoJob == "none"
Records == 1..NumRecords
\* Candidate gene identifiers the analyzer may report.
Genes == {"BRCA1", "FAKE1"}
\* The per-job stage labels of the progress entry.
Labels == {"stage1", "stage2", "stage3"}
LabelOf(stage) == IF stage = 1 THEN "stage1" ELSE IF stage = 2 THEN "stage2" ELSE "stage3"

\* The submitted workloads explored: one run of NumRecords records (the other
\* run is not submitted: 0 records), or both runs at once, the first with
\* ConcurrentRecords records and the second, competing with it for the
\* model, with one.
Workloads ==
    {[j \in Jobs |-> IF j = "jobA" THEN NumRecords ELSE 0],
     [j \in Jobs |-> IF j = "jobA" THEN ConcurrentRecords ELSE 1]}

\* The job whose progress entries the tracker specification follows, the
\* statuses a worker reports, and the marker of a label a live entry lacks.
TrackedJobs == {"jobA"}
UpdateStatuses == {"processing", "processed", "error"}
Absent == "absent"

FinalDispositions == {"filtered_out", "processed", "error"}

\* What the health check may return.
HealthResults == {"Ready", "Unready"}

VARIABLES
    total,        \* total[j]: the run's total record count (0: not submitted)
    pc,           \* pc[j]: the chart node run j is at
    cur,          \* cur[j]: index of the record being processed (0: none yet)
    cls,          \* cls[j][r]: the classifier's answer for record r
    stageOf,      \* stageOf[j][r]: the latest stage record r has entered (0: none)
    disposition,  \* disposition[j][r]: durable record state, "pending" until final
    genes,        \* genes[j][r]: the gene list written with the final outcome
    cand,         \* cand[j]: candidate genes of the current record
    s2runs,       \* s2runs[j]: stage-2 executions for the current record
    recovers,     \* recovers[j]: recover invocations for the current record
    exhaustions,  \* exhaustions[j]: GPU-memory outcomes for the current record
    reloadOK,     \* reloadOK[j]: result of the last model reload
    gate,         \* the run holding the model's exclusive gate, or NoJob
    loaded,       \* whether the GPU-resident model is loaded
    status,       \* status[j]: Running | Stopped | Complete
    everRecovered,\* everRecovered[j]: a GPU recovery of run j has succeeded
    health,       \* health[j]: the health check's result, until the images are fetched
    validated,    \* validated[j]: the validator's answer for the current record
    recovered,    \* recovered[j]: stage 2 of the current record follows a recovery
    redelivered,  \* a final-outcome write has been invoked again
    progress,     \* progress[j][label]: stage status as the orchestrator marked it
    live,         \* live[j]: the job's entry in the fast store (Redis), if present
    durable,      \* durable[j]: the job's entry in the durable store (DB), if present
    upd,          \* upd[j]: the update call in progress for job j, if any
    lastLive,     \* lastLive[j][label]: the last status written to the live store
    ret,          \* ret[j]: how the last update call for job j returned
    valid,        \* the valid model handles (GPU memory allocated and not released)
    issued,       \* number of handles allocated so far; handles are 1..issued
    held,         \* held[j]: the handle caller j was given last (0: none)
    rstep,        \* rstep[j]: how far caller j's recover has come
    result,       \* result[j]: how caller j's last call of the manager returned
    \* Home page, target search
    requestId,    \* requestIdRef.current
    geneInput,    \* the search text of the target select
    targetOptions, \* the gene suggestions shown
    geneLoading,  \* the "Loading..." flag of the dropdown
    target,       \* the selected target
    lookups,      \* the gene lookups in flight: their request id and search term
    \* Home page, dossier status
    payload,      \* the submitted search
    data,         \* the dossier-status response of the submitted search
    fetching,     \* TRUE while the dossier-status query is in flight
    isModalOpen,  \* the confirmation modal is shown
    confirm,      \* the user has pressed OK in the modal
    page,         \* the route the browser shows
    \* login
    currentView,  \* the login view shown
    email, otp, username, password,   \* the form fields
    sendOtpCalls, \* send-OTP requests in flight
    verifyOtpCalls, \* verify-OTP requests in flight
    ldapCalls,    \* LDAP login requests in flight
    location,     \* window.location.href
    \* literature review table
    gridSelected, \* the rows selected in the grid
    selectedLiterature, \* the component's selectedLiterature state
    selectionEvents \* selectionChanged events fired and not yet handled

pipeVars == <<total, pc, cur, cls, stageOf, disposition, genes, cand, s2runs, recovers,
              exhaustions, reloadOK, gate, loaded, status, everRecovered,
              health, validated, recovered, redelivered, progress>>

trackVars == <<live, durable, upd, lastLive, ret>>

lifeVars == <<valid, issued, held, rstep, result>>

geneVars == <<requestId, geneInput, targetOptions, geneLoading, target, lookups>>

dossierVars == <<payload, data, fetching, isModalOpen, confirm, page>>

loginVars == <<currentView, email, otp, username, password, sendOtpCalls,
               verifyOtpCalls, ldapCalls, location>>

litVars == <<gridSelected, selectedLiterature, selectionEvents>>

uiVars == <<geneVars, dossierVars, loginVars, litVars>>

vars == <<pipeVars, trackVars, lifeVars, uiVars>>

\* ------------------------------------------------------------------- init
PipeInit ==
    /\ total \in Workloads
    /\ pc = [j \in Jobs |-> "Start"]
    /\ cur = [j \in Jobs |-> 0]
    /\ cls = [j \in Jobs |-> [r \in Records |-> "none"]]
    /\ stageOf = [j \in Jobs |-> [r \in Records |-> 0]]
    /\ disposition = [j \in Jobs |-> [r \in Records |-> "pending"]]
    /\ genes = [j \in Jobs |-> [r \in Records |-> {}]]
    /\ cand = [j \in Jobs |-> {}]
    /\ s2runs = [j \in Jobs |-> 0]
    /\ recovers = [j \in Jobs |-> 0]
    /\ exhaustions = [j \in Jobs |-> 0]
    /\ reloadOK = [j \in Jobs |-> FALSE]
    /\ gate = NoJob
    /\ loaded = FALSE
    /\ status = [j \in Jobs |-> "Running"]
    /\ everRecovered = [j \in Jobs |-> FALSE]
    /\ health = [j \in Jobs |-> "unchecked"]
    /\ validated = [j \in Jobs |-> {}]
    /\ recovered = [j \in Jobs |-> FALSE]
    /\ redelivered = FALSE
    /\ progress = [j \in Jobs |-> [l \in Labels |-> "pending"]]

NoLiveEntry == [present |-> FALSE, progress |-> [l \in Labels |-> Absent]]
NoDurableEntry ==
    [present |-> FALSE, status |-> Absent, progress |-> [l \in Labels |-> Absent]]
NoUpdate == [phase |-> "idle", label |-> "stage1", status |-> "pending", prev |-> "pending"]
NoReturn == [returned |-> FALSE, ok |-> FALSE, label |-> "stage1", status |-> "pending"]

TrackInit ==
    /\ live = [j \in Jobs |-> NoLiveEntry]
    /\ durable = [j \in Jobs |-> NoDurableEntry]
    /\ upd = [j \in Jobs |-> NoUpdate]
    /\ lastLive = [j \in Jobs |-> [l \in Labels |-> Absent]]
    /\ ret = [j \in Jobs |-> NoReturn]

\* No call of the manager has returned yet.
NoResult == [op |-> "none", ok |-> FALSE, stale |-> FALSE]

\* No handle has been allocated.
LifeInit ==
    /\ valid = {}
    /\ issued = 0
    /\ held = [j \in Jobs |-> 0]
    /\ rstep = [j \in Jobs |-> "idle"]
    /\ result = [j \in Jobs |-> NoResult]

\* A value that is not set (undefined, null).
Undefined == "undefined"

\* Home: useState initial values, requestIdRef = useRef(0).
GeneInit ==
    /\ requestId = 0
    /\ geneInput = ""
    /\ targetOptions = {}
    /\ geneLoading = FALSE
    /\ target = Undefined
    /\ lookups = {}

\* useState(null) of payload, and the undefined data of a query that has
\* not answered.
NoPayload == [target |-> Undefined, diseases |-> {}]

NoData == [cachedTarget |-> "no data", cachedDiseases |-> {}]

\* Home: no search submitted, modal closed.
DossierInit ==
    /\ payload = NoPayload
    /\ data = NoData
    /\ fetching = FALSE
    /\ isModalOpen = FALSE
    /\ confirm = FALSE
    /\ page = "/"

\* AganithaLoginInner: useState initial values, no request sent.
LoginInit ==
    /\ currentView = "main"
    /\ email = ""
    /\ otp = ""
    /\ username = ""
    /\ password = ""
    /\ sendOtpCalls = 0
    /\ verifyOtpCalls = 0
    /\ ldapCalls = 0
    /\ location = "/login"

\* Literature: nothing selected.
LitInit ==
    /\ gridSelected = {}
    /\ selectedLiterature = {}
    /\ selectionEvents = 0

UiInit == GeneInit /\ DossierInit /\ LoginInit /\ LitInit

Init == PipeInit /\ TrackInit /\ LifeInit /\ UiInit

\* --------------------------------------------------------------- helpers
\* The orchestrator's progress mark for one stage label.
Mark(p, label, s) == [p EXCEPT ![label] = s]

\* Step 4 without its check: every invocation overwrites the record.
WriteFinalOutcomeOverwrites(rec, g) == [disposition |-> "processed", genes |-> g]

\* Step 4 of the per-record algorithm: the final outcome of a record is
\* written once; a record whose disposition is already final is left as is.
WriteFinalOutcome(rec, g) ==
    IF rec.disposition \in FinalDispositions
    THEN rec
    ELSE [disposition |-> "processed", genes |-> g]

\* A gate that lets every caller in.
GateAlwaysFree == TRUE

\* withExclusiveAccess lets a caller in only while nobody holds the gate.
GateFree == gate = NoJob

\* The counters of a record's stage-2 episode start again from 0 once stage 2
\* has returned findings or timed out.
ClearCounters(j) ==
    /\ s2runs' = [s2runs EXCEPT ![j] = 0]
    /\ recovers' = [recovers EXCEPT ![j] = 0]
    /\ exhaustions' = [exhaustions EXCEPT ![j] = 0]
    /\ reloadOK' = [reloadOK EXCEPT ![j] = FALSE]

\* The worker's data of a record is dropped once the record is written.
ForgetRecord(j) ==
    /\ cand' = [cand EXCEPT ![j] = {}]
    /\ validated' = [validated EXCEPT ![j] = {}]
    /\ recovered' = [recovered EXCEPT ![j] = FALSE]

\* An error node whose record is skipped: on to ContinueNext.
Skip(j) ==
    /\ pc' = [pc EXCEPT ![j] = "ContinueNext"]
    /\ ForgetRecord(j)
    /\ UNCHANGED <<trackVars, lifeVars, uiVars, total, health, everRecovered, redelivered, cur, cls, stageOf, disposition, genes, s2runs, recovers,
                   exhaustions, reloadOK, gate, loaded, status, progress>>

\* The part of the state an action on run j leaves alone when it only moves pc.
OnlyPc(j, node) ==
    /\ pc' = [pc EXCEPT ![j] = node]
    /\ UNCHANGED <<trackVars, lifeVars, uiVars, total, health, validated, recovered, everRecovered, redelivered, cur, cls, stageOf, disposition, genes, cand, s2runs, recovers,
                   exhaustions, reloadOK, gate, loaded, status, progress>>

\* ---------------------------------------------------------------- actions
\* Start --> PreCheck
Start(j) ==
    /\ pc[j] = "Start"
    /\ total[j] > 0
    /\ OnlyPc(j, "PreCheck")

\* PreCheck --> PreLoad: the health check returns its result; the decision
\* node has this one outgoing edge, whatever the result.
PreCheck(j) ==
    /\ pc[j] = "PreCheck"
    /\ pc' = [pc EXCEPT ![j] = "PreLoad"]
    /\ \E res \in HealthResults : health' = [health EXCEPT ![j] = res]
    /\ UNCHANGED <<trackVars, lifeVars, uiVars, total, validated, recovered, everRecovered, redelivered, cur, cls, stageOf, disposition, genes, cand, s2runs, recovers,
                   exhaustions, reloadOK, gate, loaded, status, progress>>

\* PreLoad --> FetchImages: the model is loaded (a no-op when it already is).
PreLoad(j) ==
    /\ pc[j] = "PreLoad"
    /\ pc' = [pc EXCEPT ![j] = "FetchImages"]
    /\ loaded' = TRUE
    /\ UNCHANGED <<trackVars, lifeVars, uiVars, total, health, validated, recovered, everRecovered, redelivered, cur, cls, stageOf, disposition, genes, cand, s2runs, recovers,
                   exhaustions, reloadOK, gate, status, progress>>

\* FetchImages --> Stage1: the first record enters stage 1.
FetchImages(j) ==
    /\ pc[j] = "FetchImages"
    /\ pc' = [pc EXCEPT ![j] = "Stage1"]
    /\ cur' = [cur EXCEPT ![j] = 1]
    /\ stageOf' = [stageOf EXCEPT ![j][1] = 1]
    /\ progress' = [progress EXCEPT ![j] = Mark(@, "stage1", "processing")]
    /\ health' = [health EXCEPT ![j] = "unchecked"]
    /\ UNCHANGED <<trackVars, lifeVars, uiVars, total, validated, recovered, everRecovered, redelivered, cls, disposition, genes, cand, s2runs, recovers, exhaustions,
                   reloadOK, gate, loaded, status>>

\* Stage1 --> OpenAIDecision | OpenAITimeout | OpenAICritical
Stage1(j) ==
    /\ pc[j] = "Stage1"
    /\ \E out \in {"Keep", "Discard", "Timeout", "Critical"} :
        /\ cls' = [cls EXCEPT ![j][cur[j]] = out]
        /\ \/ /\ out \in {"Keep", "Discard"}
              /\ pc' = [pc EXCEPT ![j] = "OpenAIDecision"]
              /\ UNCHANGED <<progress, disposition>>
           \/ /\ out = "Timeout"
              /\ pc' = [pc EXCEPT ![j] = "OpenAITimeout"]
              /\ progress' = [progress EXCEPT ![j] = Mark(@, "stage1", "error")]
              /\ disposition' = [disposition EXCEPT ![j][cur[j]] = "error"]
           \/ /\ out = "Critical"
              /\ pc' = [pc EXCEPT ![j] = "OpenAICritical"]
              /\ progress' = [progress EXCEPT ![j] = Mark(@, "stage1", "error")]
              /\ UNCHANGED disposition
    /\ UNCHANGED <<trackVars, lifeVars, uiVars, total, health, validated, recovered, everRecovered, redelivered, cur, stageOf, genes, cand, s2runs, recovers, exhaustions,
                   reloadOK, gate, loaded, status>>

\* The decision with its two edges swapped: a discarded record goes on to
\* stage 2 and a kept one is filtered out.
OpenAIDecisionSwapped(j) ==
    /\ pc[j] = "OpenAIDecision"
    /\ \/ /\ cls[j][cur[j]] = "Keep"
          /\ pc' = [pc EXCEPT ![j] = "FilteredOut"]
          /\ disposition' = [disposition EXCEPT ![j][cur[j]] = "filtered_out"]
          /\ progress' = [progress EXCEPT ![j] = Mark(@, "stage1", "filtered_out")]
          /\ UNCHANGED stageOf
       \/ /\ cls[j][cur[j]] = "Discard"
          /\ pc' = [pc EXCEPT ![j] = "Stage2"]
          /\ stageOf' = [stageOf EXCEPT ![j][cur[j]] = 2]
          /\ progress' = [progress EXCEPT
                 ![j] = Mark(Mark(@, "stage1", "processed"), "stage2", "processing")]
          /\ UNCHANGED disposition
    /\ UNCHANGED <<trackVars, lifeVars, uiVars, total, health, validated, recovered, everRecovered, redelivered, cur, cls, genes, cand, s2runs,
                   recovers, exhaustions, reloadOK, gate, loaded, status>>

\* OpenAIDecision -->|NO| FilteredOut, -->|YES| Stage2
OpenAIDecision(j) ==
    /\ pc[j] = "OpenAIDecision"
    /\ \/ /\ cls[j][cur[j]] = "Discard"
          /\ pc' = [pc EXCEPT ![j] = "FilteredOut"]
          /\ disposition' = [disposition EXCEPT ![j][cur[j]] = "filtered_out"]
          /\ progress' = [progress EXCEPT ![j] = Mark(@, "stage1", "filtered_out")]
          /\ UNCHANGED stageOf
       \/ /\ cls[j][cur[j]] = "Keep"
          /\ pc' = [pc EXCEPT ![j] = "Stage2"]
          /\ stageOf' = [stageOf EXCEPT ![j][cur[j]] = 2]
          /\ progress' = [progress EXCEPT
                 ![j] = Mark(Mark(@, "stage1", "processed"), "stage2", "processing")]
          /\ UNCHANGED disposition
    /\ UNCHANGED <<trackVars, lifeVars, uiVars, total, health, validated, recovered, everRecovered, redelivered, cur, cls, genes, cand, s2runs, recovers, exhaustions,
                   reloadOK, gate, loaded, status>>

\* FilteredOut --> UpdateDB
FilteredOut(j) ==
    /\ pc[j] = "FilteredOut"
    /\ OnlyPc(j, "UpdateDB")

\* Stage 2 is executed under withExclusiveAccess: the caller waits at the
\* Stage2 node until the gate is free, then runs the analysis holding it.
WithExclusiveAccess(j) ==
    /\ pc[j] = "Stage2"
    /\ GateFree
    /\ gate' = j
    /\ pc' = [pc EXCEPT ![j] = "Analyze"]
    /\ s2runs' = [s2runs EXCEPT ![j] = @ + 1]
    /\ UNCHANGED <<trackVars, lifeVars, uiVars, total, health, validated, recovered, everRecovered, redelivered, cur, cls, stageOf, disposition, genes, cand, recovers,
                   exhaustions, reloadOK, loaded, status, progress>>

\* Stage2 --> Stage3 | GPUError | MedGemmaTimeout; the gate is released as
\* the analysis returns.
Stage2(j) ==
    /\ pc[j] = "Analyze"
    /\ gate' = IF gate = j THEN NoJob ELSE gate
    /\ \/ \E g \in SUBSET Genes :
            /\ pc' = [pc EXCEPT ![j] = "Stage3"]
            /\ cand' = [cand EXCEPT ![j] = g]
            /\ stageOf' = [stageOf EXCEPT ![j][cur[j]] = 3]
            /\ progress' = [progress EXCEPT
                   ![j] = Mark(Mark(@, "stage2", "processed"), "stage3", "processing")]
            /\ ClearCounters(j)
            /\ UNCHANGED <<disposition, recovered>>
       \/ /\ s2runs[j] < MaxStage2Runs
          /\ pc' = [pc EXCEPT ![j] = "GPUError"]
          /\ exhaustions' = [exhaustions EXCEPT ![j] = @ + 1]
          /\ UNCHANGED <<cand, stageOf, progress, disposition, s2runs, recovers,
                         reloadOK, recovered>>
       \/ /\ pc' = [pc EXCEPT ![j] = "MedGemmaTimeout"]
          /\ progress' = [progress EXCEPT ![j] = Mark(@, "stage2", "error")]
          /\ disposition' = [disposition EXCEPT ![j][cur[j]] = "error"]
          /\ recovered' = [recovered EXCEPT ![j] = FALSE]
          /\ ClearCounters(j)
          /\ UNCHANGED <<cand, stageOf>>
    /\ UNCHANGED <<trackVars, lifeVars, uiVars, total, health, validated, everRecovered, redelivered, cur, cls, genes, loaded, status>>

\* A GPU memory error that gives up at once, without invoking recover.
GPUErrorWithoutRecover(j) ==
    /\ pc[j] = "GPUError"
    /\ OnlyPc(j, "GPUFailed")

\* GPUError --> UnloadModel: the recovery protocol is invoked.
GPUError(j) ==
    /\ pc[j] = "GPUError"
    /\ pc' = [pc EXCEPT ![j] = "UnloadModel"]
    /\ recovers' = [recovers EXCEPT ![j] = @ + 1]
    /\ UNCHANGED <<trackVars, lifeVars, uiVars, total, health, validated, recovered, everRecovered, redelivered, cur, cls, stageOf, disposition, genes, cand, s2runs,
                   exhaustions, reloadOK, gate, loaded, status, progress>>

\* UnloadModel --> WaitGPU
UnloadModel(j) ==
    /\ pc[j] = "UnloadModel"
    /\ pc' = [pc EXCEPT ![j] = "WaitGPU"]
    /\ loaded' = FALSE
    /\ UNCHANGED <<trackVars, lifeVars, uiVars, total, health, validated, recovered, everRecovered, redelivered, cur, cls, stageOf, disposition, genes, cand, s2runs, recovers,
                   exhaustions, reloadOK, gate, status, progress>>

\* WaitGPU --> ReloadModel
WaitGPU(j) ==
    /\ pc[j] = "WaitGPU"
    /\ OnlyPc(j, "ReloadModel")

\* ReloadModel --> RecoveryDecision: the reload succeeds or fails.
ReloadModel(j) ==
    /\ pc[j] = "ReloadModel"
    /\ pc' = [pc EXCEPT ![j] = "RecoveryDecision"]
    /\ \E ok \in BOOLEAN :
        /\ loaded => ok      \* load on an already-loaded model allocates nothing
        /\ reloadOK' = [reloadOK EXCEPT ![j] = ok]
        /\ loaded' = ok
    /\ UNCHANGED <<trackVars, lifeVars, uiVars, total, health, validated, recovered, everRecovered, redelivered, cur, cls, stageOf, disposition, genes, cand, s2runs, recovers,
                   exhaustions, gate, status, progress>>

\* RecoveryDecision -->|YES| Stage2, -->|NO| GPUFailed
RecoveryDecision(j) ==
    /\ pc[j] = "RecoveryDecision"
    /\ \/ /\ reloadOK[j]
          /\ pc' = [pc EXCEPT ![j] = "Stage2"]
          /\ everRecovered' = [everRecovered EXCEPT ![j] = TRUE]
          /\ recovered' = [recovered EXCEPT ![j] = TRUE]
          /\ UNCHANGED progress
       \/ /\ ~reloadOK[j]
          /\ pc' = [pc EXCEPT ![j] = "GPUFailed"]
          /\ progress' = [progress EXCEPT ![j] = Mark(@, "stage2", "error")]
          /\ UNCHANGED <<everRecovered, recovered>>
    /\ UNCHANGED <<trackVars, lifeVars, uiVars, total, health, validated, redelivered, cur, cls, stageOf, disposition, genes, cand, s2runs, recovers,
                   exhaustions, reloadOK, gate, loaded, status>>

\* An entry of StopPipeline that marks the run Stopped and lets it go on to
\* the next record all the same.
ToStopPipelineGoesOn(j) ==
    /\ pc' = [pc EXCEPT ![j] = "ContinueNext"]
    /\ status' = [status EXCEPT ![j] = "Stopped"]
    /\ UNCHANGED <<trackVars, lifeVars, uiVars, total, health, validated, recovered, everRecovered, redelivered, cur, cls, stageOf, disposition, genes, cand, s2runs, recovers,
                   exhaustions, reloadOK, gate, loaded, progress>>

\* Entering StopPipeline marks the run Stopped.
ToStopPipeline(j) ==
    /\ pc' = [pc EXCEPT ![j] = "StopPipeline"]
    /\ status' = [status EXCEPT ![j] = "Stopped"]
    /\ UNCHANGED <<trackVars, lifeVars, uiVars, total, health, validated, recovered, everRecovered, redelivered, cur, cls, stageOf, disposition, genes, cand, s2runs, recovers,
                   exhaustions, reloadOK, gate, loaded, progress>>

\* A failed recovery treated like a timeout: the record is skipped and the
\* run goes on.
GPUFailedContinues(j) ==
    /\ pc[j] = "GPUFailed"
    /\ OnlyPc(j, "ContinueNext")

\* GPUFailed --> StopPipeline
GPUFailed(j) ==
    /\ pc[j] = "GPUFailed"
    /\ ToStopPipeline(j)

\* A critical classifier error treated like a timeout.
OpenAICriticalSkips(j) ==
    /\ pc[j] = "OpenAICritical"
    /\ OnlyPc(j, "ContinueNext")

\* OpenAICritical --> StopPipeline
OpenAICritical(j) ==
    /\ pc[j] = "OpenAICritical"
    /\ ToStopPipeline(j)

\* Stage3 --> GenesDecision
Stage3(j) ==
    /\ pc[j] = "Stage3"
    /\ OnlyPc(j, "GenesDecision")

\* "Genes found?" answered YES whatever the findings hold.
GenesDecisionAlwaysValidates(j) ==
    /\ pc[j] = "GenesDecision"
    /\ OnlyPc(j, "ValidateGenes")

\* GenesDecision -->|YES| ValidateGenes, -->|NO| UpdateDB
GenesDecision(j) ==
    /\ pc[j] = "GenesDecision"
    /\ \/ /\ cand[j] # {}
          /\ OnlyPc(j, "ValidateGenes")
       \/ /\ cand[j] = {}
          /\ OnlyPc(j, "UpdateDB")

\* ValidateGenes --> UpdateDB | NCBIError: the registry knows some genes; the
\* validator answers with the candidates among them (the others are
\* dropped), or times out.
ValidateGenes(j) ==
    /\ pc[j] = "ValidateGenes"
    /\ \/ \E known \in SUBSET Genes :
            /\ pc' = [pc EXCEPT ![j] = "UpdateDB"]
            /\ validated' = [validated EXCEPT ![j] = cand[j] \cap known]
            /\ UNCHANGED <<progress, disposition>>
       \/ /\ pc' = [pc EXCEPT ![j] = "NCBIError"]
          /\ progress' = [progress EXCEPT ![j] = Mark(@, "stage3", "error")]
          /\ disposition' = [disposition EXCEPT ![j][cur[j]] = "error"]
          /\ UNCHANGED validated
    /\ UNCHANGED <<trackVars, lifeVars, uiVars, total, health, recovered, everRecovered, redelivered, cur, cls, stageOf, genes, cand, s2runs, recovers, exhaustions,
                   reloadOK, gate, loaded, status>>

\* A final write that attaches the analyzer's candidates as they came.
UpdateDBWritesCandidates(j) ==
    /\ pc[j] = "UpdateDB"
    /\ pc' = [pc EXCEPT ![j] = "Success"]
    /\ LET r == cur[j]
           out == WriteFinalOutcome([disposition |-> disposition[j][r],
                                     genes |-> genes[j][r]], cand[j])
       IN /\ disposition' = [disposition EXCEPT ![j][r] = out.disposition]
          /\ genes' = [genes EXCEPT ![j][r] = out.genes]
          /\ progress' = [progress EXCEPT
                 ![j] = Mark(@, LabelOf(stageOf[j][r]), "processed")]
    /\ UNCHANGED <<trackVars, lifeVars, uiVars, total, health, validated, recovered, everRecovered, redelivered, cur, cls, stageOf, cand, s2runs, recovers, exhaustions,
                   reloadOK, gate, loaded, status>>

\* UpdateDB --> Success: the final outcome is written with the validated
\* genes (none when no validation took place) and the record's current stage
\* is marked processed.
UpdateDB(j) ==
    /\ pc[j] = "UpdateDB"
    /\ pc' = [pc EXCEPT ![j] = "Success"]
    /\ LET r == cur[j]
           out == WriteFinalOutcome([disposition |-> disposition[j][r],
                                     genes |-> genes[j][r]], validated[j])
       IN /\ disposition' = [disposition EXCEPT ![j][r] = out.disposition]
          /\ genes' = [genes EXCEPT ![j][r] = out.genes]
          /\ progress' = [progress EXCEPT
                 ![j] = Mark(@, LabelOf(stageOf[j][r]), "processed")]
    /\ UNCHANGED <<trackVars, lifeVars, uiVars, total, health, validated, recovered, everRecovered, redelivered, cur, cls, stageOf, cand, s2runs, recovers, exhaustions,
                   reloadOK, gate, loaded, status>>

\* Success --> NextRecord
Success(j) ==
    /\ pc[j] = "Success"
    /\ pc' = [pc EXCEPT ![j] = "NextRecord"]
    /\ ForgetRecord(j)
    /\ UNCHANGED <<trackVars, lifeVars, uiVars, total, health, everRecovered, redelivered, cur, cls, stageOf, disposition, genes, s2runs, recovers,
                   exhaustions, reloadOK, gate, loaded, status, progress>>

\* OpenAITimeout --> ContinueNext
OpenAITimeout(j) ==
    /\ pc[j] = "OpenAITimeout"
    /\ Skip(j)

\* An analyzer timeout treated as fatal.
MedGemmaTimeoutStops(j) ==
    /\ pc[j] = "MedGemmaTimeout"
    /\ ToStopPipeline(j)

\* MedGemmaTimeout --> ContinueNext
MedGemmaTimeout(j) ==
    /\ pc[j] = "MedGemmaTimeout"
    /\ Skip(j)

\* NCBIError --> ContinueNext
NCBIError(j) ==
    /\ pc[j] = "NCBIError"
    /\ Skip(j)

\* ContinueNext --> NextRecord
ContinueNext(j) ==
    /\ pc[j] = "ContinueNext"
    /\ OnlyPc(j, "NextRecord")

\* "More images?" answered one record too early.
NextRecordOffByOne(j) ==
    /\ pc[j] = "NextRecord"
    /\ \/ /\ cur[j] + 1 < total[j]
          /\ pc' = [pc EXCEPT ![j] = "DelayNext"]
          /\ UNCHANGED status
       \/ /\ cur[j] + 1 >= total[j]
          /\ pc' = [pc EXCEPT ![j] = "PipelineComplete"]
          /\ status' = [status EXCEPT ![j] = "Complete"]
    /\ UNCHANGED <<trackVars, lifeVars, uiVars, total, health, validated, recovered, everRecovered, redelivered, cur, cls, stageOf, disposition,
                   genes, cand, s2runs, recovers, exhaustions, reloadOK, gate, loaded,
                   progress>>

\* NextRecord -->|YES| DelayNext, -->|NO| PipelineComplete
NextRecord(j) ==
    /\ pc[j] = "NextRecord"
    /\ \/ /\ cur[j] < total[j]
          /\ pc' = [pc EXCEPT ![j] = "DelayNext"]
          /\ UNCHANGED status
       \/ /\ cur[j] >= total[j]
          /\ pc' = [pc EXCEPT ![j] = "PipelineComplete"]
          /\ status' = [status EXCEPT ![j] = "Complete"]
    /\ UNCHANGED <<trackVars, lifeVars, uiVars, total, health, validated, recovered, everRecovered, redelivered, cur, cls, stageOf, disposition, genes, cand, s2runs, recovers,
                   exhaustions, reloadOK, gate, loaded, progress>>

\* DelayNext --> Stage1: the next record enters stage 1.
DelayNext(j) ==
    /\ pc[j] = "DelayNext"
    /\ pc' = [pc EXCEPT ![j] = "Stage1"]
    /\ cur' = [cur EXCEPT ![j] = @ + 1]
    /\ stageOf' = [stageOf EXCEPT ![j][cur[j] + 1] = 1]
    /\ progress' = [progress EXCEPT ![j] = Mark(@, "stage1", "processing")]
    /\ UNCHANGED <<trackVars, lifeVars, uiVars, total, health, validated, recovered, everRecovered, redelivered, cls, disposition, genes, cand, s2runs, recovers, exhaustions,
                   reloadOK, gate, loaded, status>>

\* The write-final-outcome step invoked again for a record that is already
\* marked processed (a redelivered write), with whatever gene list g.
ReinvokeWriteFinalOutcome(j) ==
    /\ \E r \in Records, g \in SUBSET Genes :
        /\ disposition[j][r] = "processed"
        /\ LET out == WriteFinalOutcome([disposition |-> disposition[j][r],
                                         genes |-> genes[j][r]], g)
           IN /\ disposition' = [disposition EXCEPT ![j][r] = out.disposition]
              /\ genes' = [genes EXCEPT ![j][r] = out.genes]
    /\ redelivered' = TRUE
    /\ UNCHANGED <<trackVars, lifeVars, uiVars, total, health, validated, recovered, everRecovered, pc, cur, cls, stageOf, cand, s2runs, recovers, exhaustions,
                   reloadOK, gate, loaded, status, progress>>

PipeStep(j) ==
    \/ Start(j) \/ PreCheck(j) \/ PreLoad(j) \/ FetchImages(j)
    \/ Stage1(j) \/ OpenAIDecision(j) \/ FilteredOut(j)
    \/ WithExclusiveAccess(j) \/ Stage2(j)
    \/ GPUError(j) \/ UnloadModel(j) \/ WaitGPU(j) \/ ReloadModel(j)
    \/ RecoveryDecision(j) \/ GPUFailed(j) \/ OpenAICritical(j)
    \/ Stage3(j) \/ GenesDecision(j) \/ ValidateGenes(j) \/ UpdateDB(j)
    \/ Success(j) \/ OpenAITimeout(j) \/ MedGemmaTimeout(j) \/ NCBIError(j)
    \/ ContinueNext(j) \/ NextRecord(j) \/ DelayNext(j)

Next == \E j \in Jobs : PipeStep(j)

Spec == Init /\ [][Next]_vars

\* One run of NumRecords records on its own.
InitRun == Init /\ total["jobB"] = 0

SpecRun == InitRun /\ [][Next]_vars

\* The values a stage label and a job status take in the progress query's
\* response.
LabelStatuses == {"pending", "processing", "processed", "error"}
JobStatuses == {"submitted", "in-progress", "processed", "stopped"}

\* GET /dossier/progress: the job's stage labels as the orchestrator marked
\* them last, and the job status that goes with the run's state.
ProgressQuery(j) ==
    [progress |-> progress[j],
     status |-> IF pc[j] = "Start" THEN "submitted"
                ELSE IF status[j] = "Stopped" THEN "stopped"
                ELSE IF status[j] = "Complete" THEN "processed"
                ELSE "in-progress"]

\* The pipeline with final-outcome writes that may be delivered again.
RedeliveryNext == \E j \in Jobs : PipeStep(j) \/ ReinvokeWriteFinalOutcome(j)

\* One run of NumRecords records, its final-outcome writes redelivered.
InitRedelivery == Init /\ total["jobB"] = 0

SpecRedelivery == InitRedelivery /\ [][RedeliveryNext]_vars

\* -------------------------------------------------------- progress tracker
\* A read that goes to the durable store first.
ReadDurableFirst(j) ==
    IF durable[j].present
    THEN [source |-> "durable", stale |-> TRUE, progress |-> durable[j].progress]
    ELSE IF live[j].present
    THEN [source |-> "live", stale |-> FALSE, progress |-> live[j].progress]
    ELSE [source |-> "none", stale |-> FALSE, progress |-> NoLiveEntry.progress]

\* read(job): the live entry when there is one, else the durable entry,
\* marked stale-but-authoritative.
Read(j) ==
    IF live[j].present
    THEN [source |-> "live", stale |-> FALSE, progress |-> live[j].progress]
    ELSE IF durable[j].present
    THEN [source |-> "durable", stale |-> TRUE, progress |-> durable[j].progress]
    ELSE [source |-> "none", stale |-> FALSE, progress |-> NoLiveEntry.progress]

\* An init that enters the job in the durable store as already in progress.
TrackerInitInProgress(j) ==
    /\ ~live[j].present
    /\ ~durable[j].present
    /\ upd[j].phase = "idle"
    /\ live' = [live EXCEPT
           ![j] = [present |-> TRUE, progress |-> [l \in Labels |-> "pending"]]]
    /\ durable' = [durable EXCEPT
           ![j] = [present |-> TRUE, status |-> "in-progress",
                   progress |-> [l \in Labels |-> "pending"]]]
    /\ lastLive' = [lastLive EXCEPT ![j] = [l \in Labels |-> "pending"]]
    /\ ret' = [ret EXCEPT ![j] = NoReturn]
    /\ UNCHANGED <<pipeVars, lifeVars, uiVars, upd>>

\* init(job): the live entry with every label pending, and the durable entry
\* with job status submitted.
TrackerInit(j) ==
    /\ ~live[j].present
    /\ ~durable[j].present
    /\ upd[j].phase = "idle"
    /\ live' = [live EXCEPT
           ![j] = [present |-> TRUE, progress |-> [l \in Labels |-> "pending"]]]
    /\ durable' = [durable EXCEPT
           ![j] = [present |-> TRUE, status |-> "submitted",
                   progress |-> [l \in Labels |-> "pending"]]]
    /\ lastLive' = [lastLive EXCEPT ![j] = [l \in Labels |-> "pending"]]
    /\ ret' = [ret EXCEPT ![j] = NoReturn]
    /\ UNCHANGED <<pipeVars, lifeVars, uiVars, upd>>

\* A live write that fails and is mirrored all the same.
UpdateLiveFailureStillMirrors(j) ==
    /\ durable[j].present
    /\ upd[j].phase = "idle"
    /\ \E l \in Labels, s \in UpdateStatuses :
        /\ upd' = [upd EXCEPT ![j] = [phase |-> "mirroring", label |-> l,
                                      status |-> s, prev |-> lastLive[j][l]]]
        /\ \/ /\ live' = [live EXCEPT ![j] = [present |-> TRUE,
                                 progress |-> [live[j].progress EXCEPT ![l] = s]]]
              /\ lastLive' = [lastLive EXCEPT ![j][l] = s]
           \/ UNCHANGED <<live, lastLive>>
    /\ UNCHANGED <<pipeVars, lifeVars, uiVars, durable, ret>>

\* update(job, label, status), first half: the write to the live store.  It
\* either succeeds (creating the entry when it has expired) and the call
\* goes on to mirror, or fails, and the call returns with nothing mirrored.
UpdateLive(j) ==
    /\ durable[j].present
    /\ upd[j].phase = "idle"
    /\ \E l \in Labels, s \in UpdateStatuses :
        \/ /\ live' = [live EXCEPT ![j] = [present |-> TRUE,
                               progress |-> [live[j].progress EXCEPT ![l] = s]]]
           /\ lastLive' = [lastLive EXCEPT ![j][l] = s]
           /\ upd' = [upd EXCEPT ![j] = [phase |-> "mirroring", label |-> l,
                                         status |-> s, prev |-> lastLive[j][l]]]
           /\ UNCHANGED ret
        \/ /\ ret' = [ret EXCEPT ![j] = [returned |-> TRUE, ok |-> FALSE,
                                         label |-> l, status |-> s]]
           /\ UNCHANGED <<live, lastLive, upd>>
    /\ UNCHANGED <<pipeVars, lifeVars, uiVars, durable>>

\* An update whose second half returns without writing the durable store.
UpdateMirrorSkipsDurable(j) ==
    /\ upd[j].phase = "mirroring"
    /\ upd' = [upd EXCEPT ![j] = NoUpdate]
    /\ ret' = [ret EXCEPT ![j] = [returned |-> TRUE, ok |-> TRUE,
                                  label |-> upd[j].label, status |-> upd[j].status]]
    /\ UNCHANGED <<pipeVars, lifeVars, uiVars, live, durable, lastLive>>

\* update, second half: the status is mirrored to the durable store and the
\* call returns.
UpdateMirror(j) ==
    /\ upd[j].phase = "mirroring"
    /\ durable' = [durable EXCEPT ![j].progress[upd[j].label] = upd[j].status]
    /\ upd' = [upd EXCEPT ![j] = NoUpdate]
    /\ ret' = [ret EXCEPT ![j] = [returned |-> TRUE, ok |-> TRUE,
                                  label |-> upd[j].label, status |-> upd[j].status]]
    /\ UNCHANGED <<pipeVars, lifeVars, uiVars, live, lastLive>>

\* The live entry reaches its TTL (about 72 h) and is gone.
Expire(j) ==
    /\ live[j].present
    /\ live' = [live EXCEPT ![j] = NoLiveEntry]
    /\ UNCHANGED <<pipeVars, lifeVars, uiVars, durable, upd, lastLive, ret>>

\* cleanup(): the sweep removes a durable entry past its retention (about 10
\* days); by then the live entry, with its shorter TTL, is gone already.
Cleanup(j) ==
    /\ durable[j].present
    /\ ~live[j].present
    /\ upd[j].phase = "idle"
    /\ durable' = [durable EXCEPT ![j] = NoDurableEntry]
    /\ lastLive' = [lastLive EXCEPT ![j] = [l \in Labels |-> Absent]]
    /\ ret' = [ret EXCEPT ![j] = NoReturn]
    /\ UNCHANGED <<pipeVars, lifeVars, uiVars, live, upd>>

TrackerStep(j) ==
    \/ TrackerInit(j) \/ UpdateLive(j) \/ UpdateMirror(j)
    \/ Expire(j) \/ Cleanup(j)

TrackerNext == \E j \in TrackedJobs : TrackerStep(j)

\* The progress tracker alone, for one job; no pipeline run is started.
InitTracker == Init /\ total["jobB"] = 0

SpecTracker == InitTracker /\ [][TrackerNext]_vars

\* -------------------------------------------------- model lifecycle manager
\* A load that allocates a new handle although one is loaded.
LoadHandleAllocatesAgain(c) ==
    \/ /\ issued < MaxHandles
       /\ issued' = issued + 1
       /\ valid' = valid \cup {issued + 1}
       /\ held' = [held EXCEPT ![c] = issued + 1]
    \/ /\ valid = {}
       /\ held' = [held EXCEPT ![c] = 0]
       /\ UNCHANGED <<valid, issued>>

\* load() -> ModelHandle: with a handle already loaded the caller is given
\* that handle and nothing is allocated; otherwise GPU memory is allocated
\* for a new handle, or the allocation fails with ResourceExhaustion and the
\* caller is left without a handle.
LoadHandle(c) ==
    \/ /\ valid # {}
       /\ held' = [held EXCEPT ![c] = CHOOSE h \in valid : TRUE]
       /\ UNCHANGED <<valid, issued>>
    \/ /\ valid = {}
       /\ issued < MaxHandles
       /\ issued' = issued + 1
       /\ valid' = {issued + 1}
       /\ held' = [held EXCEPT ![c] = issued + 1]
    \/ /\ valid = {}
       /\ held' = [held EXCEPT ![c] = 0]
       /\ UNCHANGED <<valid, issued>>

\* An unload that releases the model whatever handle it is given.
UnloadHandleReleasesModel(h) == valid' = {}

\* unload(handle): the handle's GPU memory is released; nothing happens for
\* a handle that is released already.
UnloadHandle(h) == valid' = valid \ {h}

\* A caller loads the model.
Load(c) ==
    /\ rstep[c] = "idle"
    /\ LoadHandle(c)
    /\ result' = [result EXCEPT
           ![c] = [op |-> "load", ok |-> held'[c] # 0, stale |-> FALSE]]
    /\ UNCHANGED <<pipeVars, trackVars, uiVars, rstep>>

\* A caller unloads the handle it was given (valid or released already);
\* the call returns without error either way.
Unload(c) ==
    /\ rstep[c] = "idle"
    /\ held[c] # 0
    /\ UnloadHandle(held[c])
    /\ result' = [result EXCEPT
           ![c] = [op |-> "unload", ok |-> TRUE, stale |-> held[c] \notin valid]]
    /\ UNCHANGED <<pipeVars, trackVars, uiVars, issued, held, rstep>>

\* A recover that goes to the backoff wait without unloading.
RecoverUnloadSkipsUnload(c) ==
    /\ rstep[c] = "idle"
    /\ held[c] # 0
    /\ rstep' = [rstep EXCEPT ![c] = "unloaded"]
    /\ UNCHANGED <<pipeVars, trackVars, uiVars, valid, issued, held, result>>

\* recover(handle), first step: unload.
RecoverUnload(c) ==
    /\ rstep[c] = "idle"
    /\ held[c] # 0
    /\ UnloadHandle(held[c])
    /\ rstep' = [rstep EXCEPT ![c] = "unloaded"]
    /\ UNCHANGED <<pipeVars, trackVars, uiVars, issued, held, result>>

\* recover, second step: the backoff window (about 5 s) passes.
RecoverWait(c) ==
    /\ rstep[c] = "unloaded"
    /\ rstep' = [rstep EXCEPT ![c] = "waited"]
    /\ UNCHANGED <<pipeVars, trackVars, uiVars, valid, issued, held, result>>

\* recover, third step: reload; the caller gets the handle, or Failure (no
\* handle) when the reload fails.
RecoverReload(c) ==
    /\ rstep[c] = "waited"
    /\ LoadHandle(c)
    /\ rstep' = [rstep EXCEPT ![c] = "idle"]
    /\ result' = [result EXCEPT
           ![c] = [op |-> "recover", ok |-> held'[c] # 0, stale |-> FALSE]]
    /\ UNCHANGED <<pipeVars, trackVars, uiVars>>

LifecycleStep(c) ==
    \/ Load(c) \/ Unload(c)
    \/ RecoverUnload(c) \/ RecoverWait(c) \/ RecoverReload(c)

LifecycleNext == \E c \in Jobs : LifecycleStep(c)

\* The Model Lifecycle Manager alone, called by two runs; no run is started.
InitLifecycle == Init /\ total["jobB"] = 0

SpecLifecycle == InitLifecycle /\ [][LifecycleNext]_vars

\* ------------------------------------------------- Home page: target search
\* The search texts the user types, and what the gene lookup answers for a
\* search text.
SearchTexts == {"", "br", "brc"}

GeneData(term) ==
    CASE term = "br" -> {"BRCA1", "braf"}
      [] term = "brc" -> {"BRCA1"}
      [] OTHER -> {}

\* The lookups there can be: a request id and the search term it carries.
Lookups == [id : 1..MaxRequestId, term : SearchTexts \ {""}]

\* String.prototype.toUpperCase on the symbols above.
ToUpperCase(s) ==
    CASE s = "braf" -> "BRAF"
      [] s = "tp53" -> "TP53"
      [] OTHER -> s

\* The useEffect on [geneInput], run when geneInput has changed to text:
\* an empty text clears the options; any other text sets geneLoading, takes
\* the next request id and starts the lookup. id is requestIdRef.current as
\* the effect starts.
GeneInputEffect(text, id) ==
    IF text = ""
    THEN /\ targetOptions' = {}
         /\ requestId' = id
         /\ UNCHANGED <<geneLoading, lookups>>
    ELSE /\ geneLoading' = TRUE
         /\ requestId' = id + 1
         /\ lookups' = lookups \cup {[id |-> id + 1, term |-> text]}
         /\ UNCHANGED targetOptions

\* Select onSearch: the search text changes (the select is controlled by
\* searchValue = geneInput); the pending requests are invalidated, then the
\* effect runs.
OnSearch(value) ==
    /\ page = "/"
    /\ ~isModalOpen
    /\ value # geneInput
    /\ requestId + 2 <= MaxRequestId
    /\ geneInput' = value
    /\ GeneInputEffect(value, requestId + 1)
    /\ UNCHANGED <<pipeVars, trackVars, lifeVars, dossierVars, loginVars, litVars, target>>

\* handleTargetSelect: the target is set, pending requests are invalidated,
\* the search text and the options are cleared (the effect, when geneInput
\* changes to "", clears the options again).
HandleTargetSelect(value) ==
    /\ requestId + 1 <= MaxRequestId
    /\ target' = IF value = Undefined THEN Undefined ELSE ToUpperCase(value)
    /\ requestId' = requestId + 1
    /\ geneInput' = ""
    /\ targetOptions' = {}
    /\ UNCHANGED <<pipeVars, trackVars, lifeVars, dossierVars, loginVars, litVars,
                   geneLoading, lookups>>

\* A suggestion of the dropdown is clicked; the list is rendered only with
\* a search text, options, and geneLoading false.
SelectSuggestion ==
    /\ page = "/"
    /\ ~isModalOpen
    /\ ~geneLoading
    /\ geneInput # ""
    /\ \E sym \in targetOptions : HandleTargetSelect(sym)

\* The select's clear icon (allowClear): onChange(undefined).
ClearTarget ==
    /\ page = "/"
    /\ ~isModalOpen
    /\ target # Undefined
    /\ HandleTargetSelect(Undefined)

\* A response handler that writes whatever response arrives.
GeneResponseUnchecked(q, ok) ==
    /\ q \in lookups
    /\ lookups' = lookups \ {q}
    /\ targetOptions' = IF ok THEN GeneData(q.term) ELSE targetOptions
    /\ geneLoading' = FALSE
    /\ UNCHANGED <<pipeVars, trackVars, lifeVars, dossierVars, loginVars, litVars,
                   requestId, geneInput, target>>

\* fetchGeneData settles (then / catch, finally): the response is processed
\* only when its request id is requestIdRef.current.
GeneResponse(q, ok) ==
    /\ q \in lookups
    /\ lookups' = lookups \ {q}
    /\ IF q.id = requestId
       THEN /\ targetOptions' = IF ok THEN GeneData(q.term) ELSE targetOptions
            /\ geneLoading' = FALSE
       ELSE UNCHANGED <<targetOptions, geneLoading>>
    /\ UNCHANGED <<pipeVars, trackVars, lifeVars, dossierVars, loginVars, litVars,
                   requestId, geneInput, target>>

\* ------------------------------------------------ Home page: dossier status
\* The searches the form submits: a target (upper case, "" for none) and
\* the selected indications.
DiseaseNames == {"Asthma", "Copd"}

Payloads == [target : {"", "TP53"}, diseases : SUBSET DiseaseNames]

\* The dossier-status answers to a search: what of it is cached (the rest is
\* building); the service reports the target as it stores it.
StatusResponses(p) ==
    [cachedTarget : IF p.target = "" THEN {Undefined} ELSE {Undefined, "tp53"},
     cachedDiseases : SUBSET p.diseases]

\* cachedItems.length > 0
HasCachedItems(d) == d.cachedDiseases # {} \/ d.cachedTarget # Undefined

\* allDiseasesReady && targetReady, as the effect computes them: by the
\* number of diseases and by the upper-cased target.
AllReady(p, d) ==
    LET totalRequestedDiseases == Cardinality(p.diseases)
        requestedTarget == ToUpperCase(p.target)
        allDiseasesReady ==
            \/ totalRequestedDiseases = 0
            \/ Cardinality(d.cachedDiseases) = totalRequestedDiseases
        targetReady ==
            \/ requestedTarget = ""
            \/ /\ d.cachedTarget # Undefined
               /\ ToUpperCase(d.cachedTarget) = requestedTarget
    IN allDiseasesReady /\ targetReady

\* The route navigate() is called with for the cached items.
ProfilePage(d) ==
    IF d.cachedTarget # Undefined THEN "/target-biology" ELSE "/disease-profile"

\* isModalOpen after the effect on [data, payload, confirm] has run, open
\* being its value before.
EffectModal(p, d, open) ==
    IF d # NoData /\ HasCachedItems(d) /\ ~AllReady(p, d) THEN TRUE ELSE open

\* An effect that navigates for a partly cached answer without looking at
\* confirm.
EffectPageIgnoresConfirm(p, d, cf) ==
    IF d # NoData /\ HasCachedItems(d) THEN ProfilePage(d) ELSE "/"

\* The route after the effect has run with confirm = cf: it navigates when
\* everything is cached, or when part is cached and confirm is set.
EffectPage(p, d, cf) ==
    IF d # NoData /\ HasCachedItems(d) /\ (AllReady(p, d) \/ cf)
    THEN ProfilePage(d)
    ELSE "/"

\* onFinish: the form is submitted (the modal, while open, covers the
\* form). A new search starts the dossier-status query; the same search
\* again keeps the query's data and runs the effect on the new payload
\* object.
OnFinish(p) ==
    /\ page = "/"
    /\ ~isModalOpen
    /\ payload' = p
    /\ IF p = payload
       THEN /\ isModalOpen' = EffectModal(p, data, isModalOpen)
            /\ page' = EffectPage(p, data, confirm)
            /\ UNCHANGED <<data, fetching>>
       ELSE /\ data' = NoData
            /\ fetching' = TRUE
            /\ UNCHANGED <<isModalOpen, page>>
    /\ UNCHANGED <<pipeVars, trackVars, lifeVars, geneVars, loginVars, litVars, confirm>>

\* The dossier-status query answers; the effect runs on the new data.
StatusResponse(d) ==
    /\ page = "/"
    /\ fetching
    /\ d \in StatusResponses(payload)
    /\ data' = d
    /\ fetching' = FALSE
    /\ isModalOpen' = EffectModal(payload, d, isModalOpen)
    /\ page' = EffectPage(payload, d, confirm)
    /\ UNCHANGED <<pipeVars, trackVars, lifeVars, geneVars, loginVars, litVars,
                   payload, confirm>>

\* The dossier-status query fails: data stays undefined.
StatusError ==
    /\ page = "/"
    /\ fetching
    /\ fetching' = FALSE
    /\ UNCHANGED <<pipeVars, trackVars, lifeVars, geneVars, loginVars, litVars,
                   payload, data, isModalOpen, confirm, page>>

\* Modal onOk: confirm is set and the modal closed; confirm having changed,
\* the effect runs again.
ModalOk ==
    /\ page = "/"
    /\ isModalOpen
    /\ confirm' = TRUE
    /\ IF confirm
       THEN isModalOpen' = FALSE /\ UNCHANGED page
       ELSE /\ isModalOpen' = EffectModal(payload, data, FALSE)
            /\ page' = EffectPage(payload, data, TRUE)
    /\ UNCHANGED <<pipeVars, trackVars, lifeVars, geneVars, loginVars, litVars,
                   payload, data, fetching>>

\* Modal onCancel: the modal is closed.
ModalCancel ==
    /\ page = "/"
    /\ isModalOpen
    /\ isModalOpen' = FALSE
    /\ UNCHANGED <<pipeVars, trackVars, lifeVars, geneVars, loginVars, litVars,
                   payload, data, fetching, confirm, page>>

AllStatusResponses == UNION {StatusResponses(p) : p \in Payloads}

\* The Home page: the target search and the dossier-status flow of the one
\* component.
HomeNext ==
    \/ \E value \in SearchTexts : OnSearch(value)
    \/ SelectSuggestion
    \/ ClearTarget
    \/ \E q \in Lookups, ok \in BOOLEAN : GeneResponse(q, ok)
    \/ \E p \in Payloads : OnFinish(p)
    \/ \E d \in AllStatusResponses : StatusResponse(d)
    \/ StatusError
    \/ ModalOk
    \/ ModalCancel

InitHome == Init /\ total["jobB"] = 0

SpecHome == InitHome /\ [][HomeNext]_vars

\* -------------------------------------------------------------- login page
\* What the user types into the fields of the login forms.
Emails == {"", "a@x.org"}

Otps == {"", "123456"}

Usernames == {"", "alice"}

Passwords == {"", "secret"}

\* MainLogin onEmailLogin / onLdapLogin
OnEmailLogin ==
    /\ location = "/login"
    /\ currentView = "main"
    /\ currentView' = "email-otp"
    /\ UNCHANGED <<pipeVars, trackVars, lifeVars, geneVars, dossierVars, litVars,
                   email, otp, username, password, sendOtpCalls, verifyOtpCalls,
                   ldapCalls, location>>

OnLdapLogin ==
    /\ location = "/login"
    /\ currentView = "main"
    /\ currentView' = "ldap"
    /\ UNCHANGED <<pipeVars, trackVars, lifeVars, geneVars, dossierVars, litVars,
                   email, otp, username, password, sendOtpCalls, verifyOtpCalls,
                   ldapCalls, location>>

\* EmailOTP: the email input's onChange (the input is enabled also while a
\* send-OTP request is in flight).
SetEmail(e) ==
    /\ location = "/login"
    /\ currentView = "email-otp"
    /\ e # email
    /\ email' = e
    /\ UNCHANGED <<pipeVars, trackVars, lifeVars, geneVars, dossierVars, litVars,
                   currentView, otp, username, password, sendOtpCalls,
                   verifyOtpCalls, ldapCalls, location>>

\* sendOtp: nothing for an empty email; otherwise the mutation is started
\* (by the button, or by Enter in the input).
SendOtp ==
    /\ location = "/login"
    /\ currentView = "email-otp"
    /\ email # ""
    /\ sendOtpCalls < MaxPendingCalls
    /\ sendOtpCalls' = sendOtpCalls + 1
    /\ UNCHANGED <<pipeVars, trackVars, lifeVars, geneVars, dossierVars, litVars,
                   currentView, email, otp, username, password, verifyOtpCalls,
                   ldapCalls, location>>

\* sendOtpMutation settles: onSuccess shows otp-verify, onError only logs.
\* goBack's reset() clears what the component sees of the mutation, not the
\* request nor its callbacks.
SendOtpResponse(ok) ==
    /\ location = "/login"
    /\ sendOtpCalls > 0
    /\ sendOtpCalls' = sendOtpCalls - 1
    /\ currentView' = IF ok THEN "otp-verify" ELSE currentView
    /\ UNCHANGED <<pipeVars, trackVars, lifeVars, geneVars, dossierVars, litVars,
                   email, otp, username, password, verifyOtpCalls, ldapCalls,
                   location>>

\* OTPVerify: the OTP input.
SetOtp(o) ==
    /\ location = "/login"
    /\ currentView = "otp-verify"
    /\ o # otp
    /\ otp' = o
    /\ UNCHANGED <<pipeVars, trackVars, lifeVars, geneVars, dossierVars, litVars,
                   currentView, email, username, password, sendOtpCalls,
                   verifyOtpCalls, ldapCalls, location>>

\* verifyOtp: nothing for an empty OTP.
VerifyOtp ==
    /\ location = "/login"
    /\ currentView = "otp-verify"
    /\ otp # ""
    /\ verifyOtpCalls < MaxPendingCalls
    /\ verifyOtpCalls' = verifyOtpCalls + 1
    /\ UNCHANGED <<pipeVars, trackVars, lifeVars, geneVars, dossierVars, litVars,
                   currentView, email, otp, username, password, sendOtpCalls,
                   ldapCalls, location>>

\* verifyOtpMutation settles: onSuccess leaves the login page.
VerifyOtpResponse(ok) ==
    /\ location = "/login"
    /\ verifyOtpCalls > 0
    /\ verifyOtpCalls' = verifyOtpCalls - 1
    /\ location' = IF ok THEN "/" ELSE location
    /\ UNCHANGED <<pipeVars, trackVars, lifeVars, geneVars, dossierVars, litVars,
                   currentView, email, otp, username, password, sendOtpCalls,
                   ldapCalls>>

\* LDAPLogin: the username and password inputs.
SetUsername(u) ==
    /\ location = "/login"
    /\ currentView = "ldap"
    /\ u # username
    /\ username' = u
    /\ UNCHANGED <<pipeVars, trackVars, lifeVars, geneVars, dossierVars, litVars,
                   currentView, email, otp, password, sendOtpCalls,
                   verifyOtpCalls, ldapCalls, location>>

SetPassword(w) ==
    /\ location = "/login"
    /\ currentView = "ldap"
    /\ w # password
    /\ password' = w
    /\ UNCHANGED <<pipeVars, trackVars, lifeVars, geneVars, dossierVars, litVars,
                   currentView, email, otp, username, sendOtpCalls,
                   verifyOtpCalls, ldapCalls, location>>

\* loginWithLdap: nothing without a username and a password.
LoginWithLdap ==
    /\ location = "/login"
    /\ currentView = "ldap"
    /\ username # "" /\ password # ""
    /\ ldapCalls < MaxPendingCalls
    /\ ldapCalls' = ldapCalls + 1
    /\ UNCHANGED <<pipeVars, trackVars, lifeVars, geneVars, dossierVars, litVars,
                   currentView, email, otp, username, password, sendOtpCalls,
                   verifyOtpCalls, location>>

\* ldapLoginMutation settles: onSuccess leaves the login page.
LdapResponse(ok) ==
    /\ location = "/login"
    /\ ldapCalls > 0
    /\ ldapCalls' = ldapCalls - 1
    /\ location' = IF ok THEN "/" ELSE location
    /\ UNCHANGED <<pipeVars, trackVars, lifeVars, geneVars, dossierVars, litVars,
                   currentView, email, otp, username, password, sendOtpCalls,
                   verifyOtpCalls>>

\* goBack: from otp-verify to the email form (the OTP is cleared); from the
\* other forms to the main view (email, username, password are cleared).
GoBack ==
    /\ location = "/login"
    /\ currentView # "main"
    /\ IF currentView = "otp-verify"
       THEN /\ currentView' = "email-otp"
            /\ otp' = ""
            /\ UNCHANGED <<email, username, password>>
       ELSE /\ currentView' = "main"
            /\ email' = ""
            /\ username' = ""
            /\ password' = ""
            /\ UNCHANGED otp
    /\ UNCHANGED <<pipeVars, trackVars, lifeVars, geneVars, dossierVars, litVars,
                   sendOtpCalls, verifyOtpCalls, ldapCalls, location>>

LoginNext ==
    \/ OnEmailLogin
    \/ OnLdapLogin
    \/ \E e \in Emails : SetEmail(e)
    \/ SendOtp
    \/ \E ok \in BOOLEAN : SendOtpResponse(ok)
    \/ \E o \in Otps : SetOtp(o)
    \/ VerifyOtp
    \/ \E ok \in BOOLEAN : VerifyOtpResponse(ok)
    \/ \E u \in Usernames : SetUsername(u)
    \/ \E w \in Passwords : SetPassword(w)
    \/ LoginWithLdap
    \/ \E ok \in BOOLEAN : LdapResponse(ok)
    \/ GoBack

InitLogin == Init /\ total["jobB"] = 0

SpecLogin == InitLogin /\ [][LoginNext]_vars

\* --------------------------------------------------- literature review table
\* The rows of the grid, and the most rows the handler lets through.
Rows == 1..NumRows

MaxSelectedRows == 10

\* A click on a row (rowMultiSelectWithClick) selects or deselects it; the
\* grid fires selectionChanged.
ToggleRow(r) ==
    /\ selectionEvents = 0
    /\ gridSelected' = IF r \in gridSelected THEN gridSelected \ {r}
                       ELSE gridSelected \cup {r}
    /\ selectionEvents' = 1
    /\ UNCHANGED <<pipeVars, trackVars, lifeVars, geneVars, dossierVars, loginVars,
                   selectedLiterature>>

\* A shift-click on the row next to the one clicked before selects the two
\* rows lo, hi in one event.
SelectRange(lo, hi) ==
    /\ selectionEvents = 0
    /\ hi = lo + 1
    /\ ~((lo..hi) \subseteq gridSelected)
    /\ gridSelected' = gridSelected \cup (lo..hi)
    /\ selectionEvents' = 1
    /\ UNCHANGED <<pipeVars, trackVars, lifeVars, geneVars, dossierVars, loginVars,
                   selectedLiterature>>

\* A handler that stores the selection whatever its size.
OnSelectionChangedStoresAll ==
    /\ selectionEvents > 0
    /\ selectedLiterature' = gridSelected
    /\ selectionEvents' = 0
    /\ UNCHANGED <<pipeVars, trackVars, lifeVars, geneVars, dossierVars, loginVars,
                   gridSelected>>

\* onSelectionChanged: with more than 10 selected nodes the last node the
\* grid lists (whichever the grid lists last) is deselected, and that
\* deselection fires selectionChanged again or does not; otherwise the
\* selected rows are stored.
OnSelectionChanged ==
    /\ selectionEvents > 0
    /\ IF Cardinality(gridSelected) > MaxSelectedRows
       THEN /\ \E lastSelectedNode \in gridSelected :
                  gridSelected' = gridSelected \ {lastSelectedNode}
            /\ selectionEvents' \in {0, 1}
            /\ UNCHANGED selectedLiterature
       ELSE /\ selectedLiterature' = gridSelected
            /\ selectionEvents' = 0
            /\ UNCHANGED gridSelected
    /\ UNCHANGED <<pipeVars, trackVars, lifeVars, geneVars, dossierVars, loginVars>>

LiteratureNext ==
    \/ \E r \in Rows : ToggleRow(r)
    \/ \E lo, hi \in Rows : SelectRange(lo, hi)
    \/ OnSelectionChanged

InitLiterature == Init /\ total["jobB"] = 0

SpecLiterature == InitLiterature /\ [][LiteratureNext]_vars

\* ----------------------------------------------------------------- claims
\* C1: in every reachable state at most one run is executing its stage-2
\* analysis against the model, and that run holds the exclusive gate: a
\* second caller of withExclusiveAccess is not running while the first is.
C1_OneAnalysisAtATime ==
    /\ Cardinality({j \in Jobs : pc[j] = "Analyze"}) <= 1
    /\ \A j \in Jobs : pc[j] = "Analyze" => gate = j

\* One run is executing stage 2 while the other waits at the gate.
C1_Witness ==
    \E a, b \in Jobs : a # b /\ pc[a] = "Analyze" /\ pc[b] = "Stage2"

\* C2: every GPU-memory outcome of stage 2 is followed by exactly one recover
\* invocation (never none, never a second one for the same exhaustion), and
\* a run is Stopped for a kept record only after the recovery invoked for its
\* last exhaustion has failed.
C2_OneRecoverPerExhaustion ==
    \A j \in Jobs :
        /\ recovers[j] <= exhaustions[j]
        /\ exhaustions[j] <= recovers[j] + 1
        /\ (exhaustions[j] = recovers[j] + 1) <=> (pc[j] = "GPUError")
        /\ (pc[j] \in {"GPUFailed", "StopPipeline"} /\ cls[j][cur[j]] = "Keep")
              => /\ exhaustions[j] >= 1
                 /\ recovers[j] = exhaustions[j]
                 /\ ~reloadOK[j]

\* A run stopped after two exhaustions of one record: the first recovered,
\* the second not, two recover invocations in all.
C2_Witness ==
    \E j \in Jobs :
        /\ status[j] = "Stopped"
        /\ exhaustions[j] = 2
        /\ recovers[j] = 2
        /\ ~reloadOK[j]

\* C3: a record's stage never goes back (1, then 2, then 3), and stage 2 is
\* executed at most twice for a record (one re-execution after a successful
\* GPU recovery).
C3_StagesAdvanceOneRetry ==
    [][\A j \in Jobs :
         /\ \A r \in Records : stageOf'[j][r] >= stageOf[j][r]
         /\ s2runs'[j] <= 2]_vars

\* C4: when a run is Complete, every one of its records has a final
\* disposition, one of filtered_out, processed, error.
C4_CompleteMeansAllFinal ==
    \A j \in Jobs :
        status[j] = "Complete" =>
            \A r \in 1..total[j] : disposition[j][r] \in FinalDispositions

\* A completed run of NumRecords records showing all three dispositions.
C4_Witness ==
    \E j \in Jobs :
        /\ status[j] = "Complete"
        /\ total[j] = NumRecords
        /\ {disposition[j][r] : r \in 1..total[j]} = FinalDispositions

\* The last update call for job j returned successfully and no further
\* update is under way.
Acknowledged(j) == ret[j].returned /\ ret[j].ok /\ upd[j].phase = "idle"

\* C5: after update(job, label, status) has returned, read(job) reports that
\* status for the label from the live store while the live entry exists; at
\* the step the live entry expires, and as long as the durable entry is
\* kept, read(job) reports the same status from the durable store.
C5_WriteThrough ==
    /\ [](\A j \in TrackedJobs :
            Acknowledged(j) =>
                /\ live[j].present =>
                      /\ Read(j).source = "live"
                      /\ Read(j).progress[ret[j].label] = ret[j].status
                /\ (~live[j].present /\ durable[j].present) =>
                      /\ Read(j).source = "durable"
                      /\ Read(j).progress[ret[j].label] = ret[j].status)
    /\ [][\A j \in TrackedJobs :
            (Acknowledged(j) /\ live[j].present /\ ~live'[j].present) =>
                /\ Read(j)'.source = "durable"
                /\ Read(j)'.progress[ret[j].label] = ret[j].status]_vars

\* An acknowledged "processed" is read back from the durable store after the
\* live entry has expired.
C5_Witness ==
    \E j \in TrackedJobs :
        /\ Acknowledged(j)
        /\ ret[j].status = "processed"
        /\ ~live[j].present
        /\ Read(j).source = "durable"
        /\ Read(j).progress[ret[j].label] = "processed"

\* C6: the durable store shows, for every job and label, the last status
\* written to the live store, or the one before it while the mirroring of an
\* update is under way; a failed live write leaves it as it was.
C6_DurableNeverAhead ==
    \A j \in TrackedJobs, l \in Labels :
        durable[j].present =>
            durable[j].progress[l] =
                IF upd[j].phase = "mirroring" /\ upd[j].label = l
                THEN upd[j].prev
                ELSE lastLive[j][l]

\* An update returned with a failed live write, the durable store does not
\* show its status, and shows an earlier, mirrored "processed" elsewhere.
C6_Witness ==
    \E j \in TrackedJobs :
        /\ ret[j].returned
        /\ ~ret[j].ok
        /\ durable[j].present
        /\ durable[j].progress[ret[j].label] # ret[j].status
        /\ \E l \in Labels : l # ret[j].label /\ durable[j].progress[l] = "processed"

\* C7: once a record's disposition is final no step changes its disposition
\* or its gene list, a repeated final-outcome write included.
C7_FinalOutcomeImmutable ==
    [][\A j \in Jobs, r \in Records :
         disposition[j][r] \in FinalDispositions
           => /\ disposition'[j][r] = disposition[j][r]
              /\ genes'[j][r] = genes[j][r]]_vars

\* A final-outcome write was invoked again and a processed record still
\* holds the one gene it was written with.
C7_Witness ==
    /\ redelivered
    /\ \E j \in Jobs, r \in Records :
        disposition[j][r] = "processed" /\ genes[j][r] = {"BRCA1"}

\* C8: a record the classifier discarded never enters stage 2 or 3, has no
\* genes, and is filtered_out from the moment the decision is taken.
C8_DiscardIsFilteredOut ==
    \A j \in Jobs, r \in Records :
        cls[j][r] = "Discard" =>
            /\ stageOf[j][r] = 1
            /\ genes[j][r] = {}
            /\ (cur[j] = r => s2runs[j] = 0 /\ cand[j] = {})
            /\ (cur[j] = r /\ pc[j] = "OpenAIDecision")
                  => disposition[j][r] = "pending"
            /\ ~(cur[j] = r /\ pc[j] = "OpenAIDecision")
                  => disposition[j][r] = "filtered_out"

\* The first record was discarded and a later record has reached stage 3.
C8_Witness ==
    \E j \in Jobs :
        /\ cls[j][1] = "Discard"
        /\ disposition[j][1] = "filtered_out"
        /\ cur[j] > 1
        /\ stageOf[j][cur[j]] = 3

\* C9: when the classifier answered Critical for record R, stage 1 shows
\* error in the progress entry, the run is on its way to StopPipeline or is
\* Stopped there, R never left stage 1 and no later record entered a stage.
C9_CriticalHalts ==
    \A j \in Jobs, r \in Records :
        cls[j][r] = "Critical" =>
            /\ cur[j] = r
            /\ progress[j]["stage1"] = "error"
            /\ pc[j] \in {"OpenAICritical", "StopPipeline"}
            /\ (pc[j] = "StopPipeline") <=> (status[j] = "Stopped")
            /\ (pc[j] = "OpenAICritical") <=> (status[j] = "Running")
            /\ stageOf[j][r] = 1
            /\ \A q \in Records : q > r => stageOf[j][q] = 0

\* The second of three records was Critical and the run is Stopped.
C9_Witness ==
    \E j \in Jobs :
        /\ total[j] = NumRecords
        /\ cur[j] = 2
        /\ cls[j][2] = "Critical"
        /\ status[j] = "Stopped"

\* The fatal conditions: the classifier answered Critical for the current
\* record, or the recovery of its last GPU exhaustion has failed.
Fatal(j) ==
    /\ cur[j] > 0
    /\ \/ cls[j][cur[j]] = "Critical"
       \/ /\ exhaustions[j] > 0
          /\ recovers[j] = exhaustions[j]
          /\ ~reloadOK[j]
          /\ pc[j] \notin {"UnloadModel", "WaitGPU", "ReloadModel", "RecoveryDecision"}

\* C10: after a fatal condition on record R the run goes to StopPipeline and
\* nowhere else, it is Stopped there, and every record after R is still
\* pending in the durable store (earlier successful recoveries included).
C10_FatalLeavesRestPending ==
    \A j \in Jobs :
        /\ Fatal(j) =>
              /\ pc[j] \in {"OpenAICritical", "GPUFailed", "StopPipeline"}
              /\ \A r \in Records : r > cur[j] => disposition[j][r] = "pending"
        /\ (pc[j] = "StopPipeline") <=> (status[j] = "Stopped")
        /\ status[j] = "Stopped" => Fatal(j)

\* Record 1 recovered from an exhaustion, record 2's only recovery failed,
\* the run is Stopped and record 3 is pending.
C10_Witness ==
    \E j \in Jobs :
        /\ total[j] >= 3
        /\ cur[j] = 2
        /\ status[j] = "Stopped"
        /\ everRecovered[j]
        /\ exhaustions[j] = 1
        /\ recovers[j] = 1
        /\ disposition[j][3] = "pending"

\* A run that has left record cur[j] attempts the next one: "More images?"
\* answered YES leads to the pacing delay, and from there the next record
\* enters stage 1 with the run still Running.
AttemptsNext(j) ==
    /\ (pc[j] = "NextRecord" /\ cur[j] < total[j] /\ pc'[j] # pc[j])
          => pc'[j] = "DelayNext" /\ status'[j] = "Running"
    /\ (pc[j] = "DelayNext" /\ pc'[j] # pc[j])
          => /\ pc'[j] = "Stage1"
             /\ cur'[j] = cur[j] + 1
             /\ stageOf'[j][cur[j] + 1] = 1
             /\ status'[j] = "Running"

\* The current record's analysis, retried after a successful recovery, has
\* returned findings with no candidate gene.
EmptyAfterRecovery(j) ==
    /\ cur[j] > 0
    /\ recovered[j]
    /\ stageOf[j][cur[j]] = 3
    /\ cand[j] = {}

\* C11: when stage 2 of record R exhausted the GPU, the recovery succeeded and
\* the retried analysis returned findings without genes, R goes to the final
\* write without validation, is written processed with an empty gene list,
\* the run stays Running, and the next record, if any, is attempted.
C11_RecoveredEmptyFindings ==
    /\ [](\A j \in Jobs :
            EmptyAfterRecovery(j) =>
                /\ pc[j] \in {"Stage3", "GenesDecision", "UpdateDB", "Success"}
                /\ status[j] = "Running"
                /\ pc[j] # "Success" => disposition[j][cur[j]] = "pending"
                /\ pc[j] = "Success" =>
                      /\ disposition[j][cur[j]] = "processed"
                      /\ genes[j][cur[j]] = {})
    /\ [][\A j \in Jobs :
            /\ (EmptyAfterRecovery(j) /\ pc[j] = "Success" /\ pc'[j] # pc[j])
                  => pc'[j] = "NextRecord" /\ status'[j] = "Running"
            /\ AttemptsNext(j)]_vars

\* The first record recovered, was analysed again with no gene found and is
\* written processed with no genes; a further record is waiting.
C11_Witness ==
    \E j \in Jobs :
        /\ EmptyAfterRecovery(j)
        /\ pc[j] = "Success"
        /\ everRecovered[j]
        /\ cur[j] < total[j]
        /\ disposition[j][cur[j]] = "processed"
        /\ genes[j][cur[j]] = {}

\* C12: for a kept record whose analysis returned candidate genes G and
\* whose validation was answered, the answer holds only members of G, the
\* gene list written is exactly the answer, and the record is processed,
\* also when the answer is empty.
C12_OnlyConfirmedGenes ==
    \A j \in Jobs :
        (cur[j] > 0 /\ cand[j] # {} /\ pc[j] \in {"UpdateDB", "Success"}) =>
            /\ cls[j][cur[j]] = "Keep"
            /\ validated[j] \subseteq cand[j]
            /\ pc[j] = "UpdateDB" => disposition[j][cur[j]] = "pending"
            /\ pc[j] = "Success" =>
                  /\ genes[j][cur[j]] = validated[j]
                  /\ disposition[j][cur[j]] = "processed"

\* Scenario B: candidates BRCA1 and FAKE1, only BRCA1 confirmed, the record
\* written processed with BRCA1 alone.
C12_Witness ==
    \E j \in Jobs :
        /\ pc[j] = "Success"
        /\ cand[j] = {"BRCA1", "FAKE1"}
        /\ validated[j] = {"BRCA1"}
        /\ genes[j][cur[j]] = {"BRCA1"}
        /\ disposition[j][cur[j]] = "processed"

\* C13: the model is preloaded and the images are fetched only after the
\* health check returned Ready; after Unready the run takes no further step:
\* no preload, no record in stage 1, no second check.
C13_UnreadyDoesNotStart ==
    /\ [](\A j \in Jobs :
            /\ pc[j] \in {"PreLoad", "FetchImages"} => health[j] = "Ready"
            /\ health[j] = "Unready" => cur[j] = 0)
    /\ [][\A j \in Jobs : health[j] = "Unready" => pc'[j] = pc[j]]_vars

\* C14: whatever loads, unloads and recovers have taken place, at most one
\* model handle is valid, and a load (a recover's reload included) that
\* finds a handle loaded gives the caller that handle and leaves the set of
\* valid handles as it is.
C14_AtMostOneValidHandle ==
    /\ [](Cardinality(valid) <= 1)
    /\ [][\A c \in Jobs :
            (valid # {} /\ held'[c] # held[c])
                => valid' = valid /\ held'[c] \in valid]_vars

\* Two handles have been released, the third is valid, and both callers
\* were given it: the second load found it loaded.
C14_Witness ==
    /\ issued = 3
    /\ valid = {3}
    /\ \A c \in Jobs : held[c] = 3 /\ rstep[c] = "idle"

\* C15: read(job) returns the live entry, not marked stale, whenever a live
\* entry exists, also when the durable entry differs from it; it returns the
\* durable entry, marked stale-but-authoritative, exactly when the job has
\* no live entry and a durable one.
C15_ReadLiveElseDurable ==
    \A j \in TrackedJobs :
        /\ live[j].present =>
              /\ Read(j).source = "live"
              /\ ~Read(j).stale
              /\ Read(j).progress = live[j].progress
        /\ (Read(j).source = "durable") <=> (~live[j].present /\ durable[j].present)
        /\ Read(j).stale <=> (Read(j).source = "durable")
        /\ Read(j).source = "durable" => Read(j).progress = durable[j].progress

\* Both entries exist and differ (an update is being mirrored): read returns
\* the live one.
C15_Witness ==
    \E j \in TrackedJobs :
        /\ live[j].present
        /\ durable[j].present
        /\ live[j].progress # durable[j].progress
        /\ Read(j).progress = live[j].progress
        /\ ~Read(j).stale

\* C16: the step that creates a job's entries (init) leaves a live entry
\* with every stage label pending and a durable entry with job status
\* submitted.
C16_InitPendingSubmitted ==
    [][\A j \in TrackedJobs :
         (~durable[j].present /\ durable'[j].present) =>
             /\ live'[j].present
             /\ \A l \in Labels : live'[j].progress[l] = "pending"
             /\ durable'[j].status = "submitted"]_vars

\* The state right after init: both entries exist, no update has been
\* called, every label is pending and the job is submitted.
C16_Witness ==
    \E j \in TrackedJobs :
        /\ live[j].present
        /\ durable[j].present
        /\ ~ret[j].returned
        /\ upd[j].phase = "idle"
        /\ \A l \in Labels : live[j].progress[l] = "pending"
        /\ durable[j].status = "submitted"

C18_OneRecoveryPerRecord ==
    \A j \in Jobs :
        /\ recovers[j] <= 1
        /\ s2runs[j] <= 2
        /\ exhaustions[j] >= 2 => pc[j] \in {"GPUError", "GPUFailed", "StopPipeline"}

\* Record r of run j timed out in stage 1, or in stage 2.
Stage1TimedOut(j, r) == cls[j][r] = "Timeout"
Stage2TimedOut(j, r) ==
    cls[j][r] = "Keep" /\ stageOf[j][r] = 2 /\ disposition[j][r] = "error"

\* C19: a timeout of stage 1 or stage 2 marks that stage error and gives the
\* record the disposition error; the record enters no later stage and gets
\* no genes; the run goes through ContinueNext to NextRecord, is never
\* Stopped on the way, and attempts the next record if there is one.
C19_TimeoutSkipsRecord ==
    /\ [](\A j \in Jobs, r \in Records :
            (Stage1TimedOut(j, r) \/ Stage2TimedOut(j, r)) =>
                /\ disposition[j][r] = "error"
                /\ genes[j][r] = {}
                /\ stageOf[j][r] = IF Stage1TimedOut(j, r) THEN 1 ELSE 2
                /\ cur[j] = r =>
                      /\ status[j] # "Stopped"
                      /\ pc[j] \in {"OpenAITimeout", "MedGemmaTimeout", "ContinueNext",
                                    "NextRecord", "DelayNext", "PipelineComplete"}
                      /\ progress[j][LabelOf(stageOf[j][r])] = "error")
    /\ [][\A j \in Jobs :
            /\ (pc[j] = "Stage1" /\ pc'[j] = "OpenAITimeout")
                  => Stage1TimedOut(j, cur[j])' /\ status'[j] = "Running"
            /\ (pc[j] = "Analyze" /\ pc'[j] = "MedGemmaTimeout")
                  => Stage2TimedOut(j, cur[j])' /\ status'[j] = "Running"
            /\ (pc[j] \in {"OpenAITimeout", "MedGemmaTimeout"} /\ pc'[j] # pc[j])
                  => pc'[j] = "ContinueNext" /\ status'[j] = "Running"
            /\ (pc[j] = "ContinueNext" /\ pc'[j] # pc[j])
                  => pc'[j] = "NextRecord" /\ status'[j] = "Running"
            /\ AttemptsNext(j)]_vars

\* Record 1 timed out in stage 1, record 2 in stage 2, and record 3 is in
\* stage 1 with the run Running.
C19_Witness ==
    \E j \in Jobs :
        /\ Stage1TimedOut(j, 1)
        /\ Stage2TimedOut(j, 2)
        /\ cur[j] = 3
        /\ pc[j] = "Stage1"
        /\ status[j] = "Running"

\* C20: when the validator times out for a record, the record goes on to
\* the final write (UpdateDB) with the run Running: the timeout neither
\* skips the write nor stops the run.
C20_ValidatorTimeoutStillWrites ==
    [][\A j \in Jobs :
         (pc[j] = "NCBIError" /\ pc'[j] # pc[j])
             => pc'[j] = "UpdateDB" /\ status'[j] = "Running"]_vars

\* C21: the analysis' findings lead to stage 3 only when they hold a
\* candidate gene; with empty findings the record goes straight to the final
\* write (UpdateDB) without entering stage 3; the validator is reached only
\* with candidates.
C21_ValidatorOnlyWithGenes ==
    /\ [](\A j \in Jobs : pc[j] = "ValidateGenes" => cand[j] # {})
    /\ [][\A j \in Jobs :
            (pc[j] = "Analyze"
               /\ pc'[j] \notin {"Analyze", "GPUError", "MedGemmaTimeout"})
                => IF cand'[j] = {}
                   THEN pc'[j] = "UpdateDB" /\ stageOf'[j][cur[j]] = 2
                   ELSE pc'[j] = "Stage3" /\ stageOf'[j][cur[j]] = 3]_vars

\* C22: an unload of a handle that is released already returns without
\* error and changes neither the valid handles nor the allocations; an
\* unload of the valid handle leaves no valid handle.
C22_UnloadIdempotent ==
    [][\A c \in Jobs :
         (result'[c] # result[c] /\ result'[c].op = "unload") =>
             /\ result'[c].ok
             /\ issued' = issued
             /\ held' = held
             /\ result'[c].stale <=> held[c] \notin valid
             /\ held[c] \notin valid => valid' = valid
             /\ held[c] \in valid => valid' = {}]_vars

\* A caller has unloaded a handle that was released already while the other
\* caller's handle is valid, and that handle is valid still.
C22_Witness ==
    \E c, d \in Jobs :
        /\ c # d
        /\ result[c] = [op |-> "unload", ok |-> TRUE, stale |-> TRUE]
        /\ held[c] \notin valid
        /\ held[d] \in valid

\* C23: recover goes through unload, wait and reload in this order; from
\* the unload on the handle passed in is not valid; a successful reload
\* gives the caller a valid handle different from the one passed in, a
\* failed one gives Failure (no handle) and leaves no valid handle.
C23_RecoverProtocol ==
    /\ [](\A c \in Jobs : rstep[c] # "idle" => held[c] # 0 /\ held[c] \notin valid)
    /\ [][\A c \in Jobs :
            /\ rstep'[c] # rstep[c] =>
                  <<rstep[c], rstep'[c]>> \in
                      {<<"idle", "unloaded">>, <<"unloaded", "waited">>,
                       <<"waited", "idle">>}
            /\ (rstep[c] = "idle" /\ rstep'[c] = "unloaded") =>
                  valid' = valid \ {held[c]} /\ issued' = issued
            /\ (rstep[c] = "unloaded" /\ rstep'[c] = "waited") =>
                  UNCHANGED <<valid, issued, held>>
            /\ (rstep[c] = "waited" /\ rstep'[c] = "idle") =>
                  /\ result'[c].op = "recover"
                  /\ IF result'[c].ok
                     THEN /\ held'[c] # held[c]
                          /\ held'[c] \in valid'
                          /\ held[c] \notin valid'
                     ELSE held'[c] = 0 /\ valid' = {}]_vars

\* A recover has returned the second handle allocated, the valid one now,
\* to a caller of the first.
C23_Witness ==
    \E c \in Jobs :
        /\ result[c] = [op |-> "recover", ok |-> TRUE, stale |-> FALSE]
        /\ issued = 2
        /\ held[c] = 2
        /\ valid = {2}

\* Beyond MaxStage2Runs executions the counters of the current record no
\* longer advance: one more GPU-memory outcome is recorded as the one before
\* it, and the chart's recovery loop goes on from there.
Stage2PastBound(j) ==
    /\ pc[j] = "Analyze"
    /\ s2runs[j] = MaxStage2Runs
    /\ gate' = IF gate = j THEN NoJob ELSE gate
    /\ pc' = [pc EXCEPT ![j] = "GPUError"]
    /\ s2runs' = [s2runs EXCEPT ![j] = @ - 1]
    /\ recovers' = [recovers EXCEPT ![j] = @ - 1]
    /\ UNCHANGED <<trackVars, lifeVars, uiVars, total, health, validated, recovered, everRecovered,
                   redelivered, cur, cls, stageOf, disposition, genes, cand,
                   exhaustions, reloadOK, loaded, status, progress>>

FairStep(j) == PipeStep(j) \/ Stage2PastBound(j)

FairNext == \E j \in Jobs : FairStep(j)

\* One run whose stage calls and recoveries all return: the run keeps
\* taking steps as long as it can take one.
SpecRunFair ==
    InitRun /\ [][FairNext]_vars /\ \A j \in Jobs : WF_vars(FairStep(j))

\* C24: every started run eventually is Stopped or Complete, and it is
\* Complete only with every record attempted and finally disposed.
C24_RunTerminates ==
    /\ \A j \in Jobs : (pc[j] # "Start") ~> (status[j] \in {"Stopped", "Complete"})
    /\ [](\A j \in Jobs :
            status[j] = "Complete" =>
                /\ cur[j] = total[j]
                /\ \A r \in 1..total[j] : disposition[j][r] \in FinalDispositions)

\* C25: a run becomes Stopped only from an error node reached after its
\* stage call or recovery has returned, never while it holds the gate; once
\* Stopped it stays Stopped at StopPipeline and neither moves to another
\* record nor enters a stage, while the other run's analysis goes on.
C25_StoppedIsAbsorbing ==
    /\ [](\A j \in Jobs :
            status[j] = "Stopped" => pc[j] = "StopPipeline" /\ gate # j)
    /\ [][\A j \in Jobs :
            /\ (status[j] # "Stopped" /\ status'[j] = "Stopped")
                  => pc[j] \in {"OpenAICritical", "GPUFailed"}
            /\ status[j] = "Stopped" =>
                  /\ status'[j] = "Stopped"
                  /\ pc'[j] = pc[j]
                  /\ cur'[j] = cur[j]
                  /\ stageOf'[j] = stageOf[j]
                  /\ disposition'[j] = disposition[j]
                  /\ gate' # j]_vars

\* One run is Stopped while the other run's analysis is in flight.
C25_Witness ==
    \E a, b \in Jobs :
        /\ a # b
        /\ status[a] = "Stopped"
        /\ pc[b] = "Analyze"
        /\ gate = b
        /\ status[b] = "Running"

\* The lookup that was started last, if it is still current: no search and
\* no selection have come after it.
LatestLookups == {q \in lookups : q.id = requestId}

\* C26: targetOptions changes only to the empty list or to the answer of
\* the lookup started last, for the search text shown, and only while no
\* search and no selection have come after that lookup.
C26_OnlyLatestResponseWritten ==
    [][targetOptions' # targetOptions =>
          \/ targetOptions' = {}
          \/ \E q \in lookups :
                /\ q \notin lookups'
                /\ \A o \in lookups : o.id <= q.id
                /\ q.id = requestId
                /\ q.term = geneInput
                /\ targetOptions' = GeneData(q.term)]_vars

\* The options shown are the answer for the search text while superseded
\* lookups are still in flight.
C26_Witness ==
    /\ geneInput # ""
    /\ targetOptions = GeneData(geneInput)
    /\ ~geneLoading
    /\ \E q \in lookups : q.id < requestId /\ q.term # geneInput

\* C27: geneLoading is false whenever no lookup for the latest request id
\* is in flight.
C27_LoadingClears == LatestLookups = {} => ~geneLoading

\* Only part of what the search asked for is cached.
PartlyCached(p, d) ==
    /\ p # NoPayload /\ d # NoData
    /\ d.cachedDiseases # {} \/ d.cachedTarget # Undefined
    /\ ~(p.diseases \subseteq d.cachedDiseases
          /\ (p.target = "" \/ d.cachedTarget # Undefined))

\* C29: with a partly cached answer the page is left only in the step in
\* which OK is pressed in the open modal; closing the modal without
\* confirming leaves the page as it is; with nothing cached the page is
\* never left.
C29_NavigationNeedsOk ==
    /\ [][(page' # page /\ PartlyCached(payload', data'))
             => (isModalOpen /\ ~confirm /\ confirm')]_vars
    /\ [][(isModalOpen /\ ~isModalOpen' /\ ~confirm') => page' = page]_vars
    /\ []((data # NoData /\ data.cachedDiseases = {}
              /\ data.cachedTarget = Undefined) => page = "/")

\* The page was left for the cached part of a partly cached answer after
\* OK.
C29_Witness ==
    /\ page # "/"
    /\ confirm
    /\ PartlyCached(payload, data)

\* C28: the view otp-verify is never shown while email is the empty string.
C28_OtpVerifyHasEmail == currentView = "otp-verify" => email # ""

\* C30: selectedLiterature never holds more than 10 rows, and the handler
\* of a selection event with more than 10 selected rows deselects one row
\* and leaves selectedLiterature as it is.
C30_AtMostTenSelected ==
    /\ [](Cardinality(selectedLiterature) <= MaxSelectedRows)
    /\ [][(selectionEvents > 0 /\ Cardinality(gridSelected) > MaxSelectedRows
              /\ litVars' # litVars)
             => /\ gridSelected' \subseteq gridSelected
                /\ Cardinality(gridSelected') = Cardinality(gridSelected) - 1
                /\ selectedLiterature' = selectedLiterature]_vars

\* Ten rows are stored, and the grid holds ten other rows after an
\* eleventh was selected and the handler deselected one of the ten.
C30_Witness ==
    /\ selectionEvents = 0
    /\ Cardinality(selectedLiterature) = MaxSelectedRows
    /\ Cardinality(gridSelected) = MaxSelectedRows
    /\ gridSelected # selectedLiterature
====
